---- MODULE Spec2Model ----
(***************************************************************************)
(* Model of app/routes/sensor_routes.py: the three request handlers        *)
(* /ingest, /test_thingspeak and /latest, the sensor_readings collection   *)
(* they share and the ThingSpeak relay client they call.                   *)
(*                                                                         *)
(* Handlers are asyncio coroutines: the code between two awaits runs       *)
(* atomically, and requests interleave at the awaits (insert_one,          *)
(* send_data, find_one).  Each await is one action; its outcome (a value   *)
(* or an exception) is chosen by the environment.                          *)
(***************************************************************************)
EXTENDS Integers, Sequences, FiniteSets

(* ---------------------------- bounds ---------------------------------- *)

\* number of HTTP requests received in one behaviour
MaxReq == 3

Req == 1..MaxReq

(* ------------------------- inputs and values --------------------------- *)

\* settings.iot_api_key, the configured shared secret
IotApiKey == "iot-key"

\* the Header(None) default when the x-api-key header is not sent
NoKey == "None"

\* credentials a caller may supply
Keys == {IotApiKey, "wrong-key", NoKey}

\* SensorReading bodies accepted by validation (reading.dict())
Readings ==
  { [temperature |-> 26, humidity |-> 80],
    [temperature |-> 21, humidity |-> 60] }

\* query parameters of /test_thingspeak
TestTemps == {26}
TestHums == {80}

\* descriptions of the exceptions the collaborators may raise (str(e))
\* (text is modelled as a sequence of string fragments)
InsertError == <<"insert_one failed">>
RelayError == <<"send_data failed">>
QueryError == <<"find_one failed">>

\* contents of the sensor_readings collection when the process starts:
\* empty, or documents written earlier, some without the keys /latest reads
InitStores ==
  { <<>>,
    << [_id |-> 1, humidity |-> 55] >>,
    << [_id |-> 1, temperature |-> 18, humidity |-> 50],
       [_id |-> 2, device |-> 7] >> }

VARIABLES
  store0,     \* sensor_readings as it was when the process started
  store,      \* sensor_readings, in insertion order
  nextId,     \* the next identifier the store assigns
  started,    \* number of requests received so far
  kind,       \* kind[r]: which handler serves request r ("-" = not received)
  pc,         \* pc[r]: the await request r is suspended at, or "done"
  arg,        \* arg[r]: the request's inputs
  insertedId, \* insertedId[r]: result.inserted_id of request r (0 = none)
  relayed,    \* relayed[r]: the send_data calls request r has made
  resp,       \* resp[r]: the HTTP response of request r
  outcome,    \* outcome[r]: what each awaited call of request r produced
  inserts     \* number of insert_one calls that have completed successfully

vars == <<store0, store, nextId, started, kind, pc, arg, insertedId, relayed,
          resp, outcome, inserts>>

(* ----------------------------- helpers --------------------------------- *)

NoArg == [key |-> NoKey, temperature |-> 0, humidity |-> 0]
NoResp == [status |-> 0, body |-> [none |-> TRUE]]
NoOutcome == [insert |-> "-", relay |-> "-", query |-> "-", inserts |-> 0]

\* raise HTTPException(status_code=..., detail=...) / a normal return
HTTPException(status_code, detail) ==
  [status |-> status_code, body |-> [detail |-> detail]]

Ok(body) == [status |-> 200, body |-> body]

Digit(d) ==
  CASE d = 0 -> "0" [] d = 1 -> "1" [] d = 2 -> "2" [] d = 3 -> "3"
    [] d = 4 -> "4" [] d = 5 -> "5" [] d = 6 -> "6" [] d = 7 -> "7"
    [] d = 8 -> "8" [] d = 9 -> "9"

RECURSIVE DecStr(_)
\* a number rendered as text, one fragment per digit
DecStr(n) == IF n < 10 THEN <<Digit(n)>>
             ELSE Append(DecStr(n \div 10), Digit(n % 10))

\* str(result.inserted_id): the identifier rendered as text
IdStr(id) == DecStr(id)

\* str(e) of an HTTPException: "<status_code>: <detail>"
StrHTTPException(status_code, detail) ==
  DecStr(status_code) \o <<": ">> \o detail

\* doc.get(key, 0) for the two keys /latest reads
GetTemperature(doc) ==
  IF "temperature" \in DOMAIN doc THEN doc.temperature ELSE 0

GetHumidity(doc) ==
  IF "humidity" \in DOMAIN doc THEN doc.humidity ELSE 0

\* the hard-coded list of buses
Onibus == <<"Bus 101", "Bus 202">>

MaxIdOf(s) ==
  CHOOSE i \in 1..Len(s) : \A j \in 1..Len(s) : s[j]._id <= s[i]._id

\* find_one with the sort direction reversed: the smallest _id
find_one_ascending(s) == IF s = <<>> THEN <<>> ELSE <<s[1]>>

\* find_one(sort=[("_id", -1)]): the document with the largest _id, or None
find_one(s) == IF s = <<>> THEN <<>> ELSE <<s[MaxIdOf(s)]>>

\* insert_one(reading.dict()): the stored document
StoredDoc(id, reading) ==
  [_id |-> id, temperature |-> reading.temperature,
   humidity |-> reading.humidity]

(* ------------------------------ Init ----------------------------------- *)

Init ==
  /\ store0 \in InitStores
  /\ store = store0
  /\ nextId = Len(store) + 1
  /\ started = 0
  /\ kind = [r \in Req |-> "-"]
  /\ pc = [r \in Req |-> "idle"]
  /\ arg = [r \in Req |-> NoArg]
  /\ insertedId = [r \in Req |-> 0]
  /\ relayed = [r \in Req |-> <<>>]
  /\ resp = [r \in Req |-> NoResp]
  /\ outcome = [r \in Req |-> NoOutcome]
  /\ inserts = 0

(* ----------------------------- /ingest --------------------------------- *)

\* ingest_data without the credential check of line 25
IngestAuth_unchecked(r, reading, x_api_key) ==
  /\ r = started + 1
  /\ r \in Req
  /\ started' = r
  /\ kind' = [kind EXCEPT ![r] = "ingest"]
  /\ arg' = [arg EXCEPT ![r] = [key |-> x_api_key,
                                temperature |-> reading.temperature,
                                humidity |-> reading.humidity]]
  /\ resp' = resp
  /\ pc' = [pc EXCEPT ![r] = "insert"]
  /\ UNCHANGED <<store0, store, nextId, insertedId, relayed, outcome, inserts>>

\* lines 17-26: the request arrives and the credential is checked
IngestAuth(r, reading, x_api_key) ==
  /\ r = started + 1
  /\ r \in Req
  /\ started' = r
  /\ kind' = [kind EXCEPT ![r] = "ingest"]
  /\ arg' = [arg EXCEPT ![r] = [key |-> x_api_key,
                                temperature |-> reading.temperature,
                                humidity |-> reading.humidity]]
  /\ IF x_api_key # IotApiKey
       THEN /\ resp' = [resp EXCEPT ![r] =
                          HTTPException(401, <<"Chave IoT invalida.">>)]
            /\ pc' = [pc EXCEPT ![r] = "done"]
       ELSE /\ resp' = resp
            /\ pc' = [pc EXCEPT ![r] = "insert"]
  /\ UNCHANGED <<store0, store, nextId, insertedId, relayed, outcome, inserts>>

\* ingest_data swallowing the exception of insert_one and going on to relay
IngestInsert_swallow(r, raises) ==
  /\ pc[r] = "insert"
  /\ IF raises
       THEN /\ pc' = [pc EXCEPT ![r] = "relay"]
            /\ outcome' = [outcome EXCEPT ![r].insert = "raise"]
            /\ UNCHANGED <<store, nextId, insertedId, inserts, resp>>
       ELSE /\ store' = Append(store, StoredDoc(nextId, arg[r]))
            /\ nextId' = nextId + 1
            /\ insertedId' = [insertedId EXCEPT ![r] = nextId]
            /\ inserts' = inserts + 1
            /\ pc' = [pc EXCEPT ![r] = "relay"]
            /\ outcome' = [outcome EXCEPT ![r].insert = "ok"]
            /\ resp' = resp
  /\ UNCHANGED <<store0, started, kind, arg, relayed>>

\* lines 28-30 and 40-42: await insert_one returns or raises
IngestInsert(r, raises) ==
  /\ pc[r] = "insert"
  /\ IF raises
       THEN /\ resp' = [resp EXCEPT ![r] = HTTPException(500, InsertError)]
            /\ pc' = [pc EXCEPT ![r] = "done"]
            /\ outcome' = [outcome EXCEPT ![r].insert = "raise"]
            /\ UNCHANGED <<store, nextId, insertedId, inserts>>
       ELSE /\ store' = Append(store, StoredDoc(nextId, arg[r]))
            /\ nextId' = nextId + 1
            /\ insertedId' = [insertedId EXCEPT ![r] = nextId]
            /\ inserts' = inserts + 1
            /\ pc' = [pc EXCEPT ![r] = "relay"]
            /\ outcome' = [outcome EXCEPT ![r].insert = "ok"]
            /\ resp' = resp
  /\ UNCHANGED <<store0, started, kind, arg, relayed>>

\* ingest_data testing the result of send_data and failing on False
IngestRelay_checked(r, out) ==
  /\ pc[r] = "relay"
  /\ relayed' = [relayed EXCEPT ![r] =
                   Append(@, <<arg[r].temperature, arg[r].humidity>>)]
  /\ outcome' = [outcome EXCEPT ![r].relay = out]
  /\ resp' = [resp EXCEPT ![r] =
                IF out = "true"
                  THEN Ok([status |-> "ok", id |-> IdStr(insertedId[r])])
                  ELSE HTTPException(500, RelayError)]
  /\ pc' = [pc EXCEPT ![r] = "done"]
  /\ UNCHANGED <<store0, store, nextId, started, kind, arg, insertedId,
                 inserts>>

\* ingest_data calling send_data a second time when the first returns False
IngestRelay_retry(r, out) ==
  /\ pc[r] = "relay"
  /\ relayed' = [relayed EXCEPT ![r] =
                   Append(@, <<arg[r].temperature, arg[r].humidity>>)]
  /\ outcome' = [outcome EXCEPT ![r].relay = out]
  /\ IF out = "false" /\ relayed[r] = <<>>
       THEN /\ resp' = resp
            /\ pc' = pc
       ELSE /\ resp' = [resp EXCEPT ![r] =
                          IF out = "raise"
                            THEN HTTPException(500, RelayError)
                            ELSE Ok([status |-> "ok",
                                     id |-> IdStr(insertedId[r])])]
            /\ pc' = [pc EXCEPT ![r] = "done"]
  /\ UNCHANGED <<store0, store, nextId, started, kind, arg, insertedId,
                 inserts>>

\* ingest_data deleting the stored document when send_data fails
IngestRelay_rollback(r, out) ==
  /\ pc[r] = "relay"
  /\ relayed' = [relayed EXCEPT ![r] =
                   Append(@, <<arg[r].temperature, arg[r].humidity>>)]
  /\ outcome' = [outcome EXCEPT ![r].relay = out]
  /\ resp' = [resp EXCEPT ![r] =
                IF out = "raise"
                  THEN HTTPException(500, RelayError)
                  ELSE Ok([status |-> "ok", id |-> IdStr(insertedId[r])])]
  /\ store' = IF out = "true" THEN store
              ELSE SelectSeq(store, LAMBDA d : d._id # insertedId[r])
  /\ pc' = [pc EXCEPT ![r] = "done"]
  /\ UNCHANGED <<store0, nextId, started, kind, arg, insertedId, inserts>>

\* lines 32-42: await send_data returns True or False, or raises
IngestRelay(r, out) ==
  /\ pc[r] = "relay"
  /\ relayed' = [relayed EXCEPT ![r] =
                   Append(@, <<arg[r].temperature, arg[r].humidity>>)]
  /\ outcome' = [outcome EXCEPT ![r].relay = out]
  /\ resp' = [resp EXCEPT ![r] =
                IF out = "raise"
                  THEN HTTPException(500, RelayError)
                  ELSE Ok([status |-> "ok", id |-> IdStr(insertedId[r])])]
  /\ pc' = [pc EXCEPT ![r] = "done"]
  /\ UNCHANGED <<store0, store, nextId, started, kind, arg, insertedId,
                 inserts>>

(* ------------------------- /test_thingspeak ---------------------------- *)

\* lines 47-63
TestThingspeak(r, temperature, humidity, out) ==
  /\ r = started + 1
  /\ r \in Req
  /\ started' = r
  /\ kind' = [kind EXCEPT ![r] = "test_thingspeak"]
  /\ arg' = [arg EXCEPT ![r] = [key |-> NoKey, temperature |-> temperature,
                                humidity |-> humidity]]
  /\ relayed' = [relayed EXCEPT ![r] = Append(@, <<temperature, humidity>>)]
  /\ outcome' = [outcome EXCEPT ![r].relay = out]
  /\ resp' = [resp EXCEPT ![r] =
       CASE out = "raise" -> HTTPException(500, RelayError)
         [] out = "true" ->
              Ok([status |-> "success",
                  message |-> <<"Dados enviados ao ThingSpeak: ">>
                                \o DecStr(temperature) \o <<"C / ">>
                                \o DecStr(humidity) \o <<"%">>])
         [] out = "false" ->
              \* the HTTPException(400) raised at line 60 is caught by the
              \* except Exception of line 61
              HTTPException(500,
                StrHTTPException(400, <<"Falha ao enviar ao ThingSpeak.">>))]
  /\ pc' = [pc EXCEPT ![r] = "done"]
  /\ UNCHANGED <<store0, store, nextId, insertedId, inserts>>

(* ------------------------------ /latest -------------------------------- *)

\* get_latest_reading consuming the document it reads (find_one_and_delete)
GetLatestReading_consume(r, raises) ==
  /\ r = started + 1
  /\ r \in Req
  /\ started' = r
  /\ kind' = [kind EXCEPT ![r] = "latest"]
  /\ LET doc == find_one(store) IN
       /\ outcome' = [outcome EXCEPT ![r].query =
                        IF raises THEN "raise"
                        ELSE IF doc = <<>> THEN "none" ELSE "doc",
                      ![r].inserts = inserts]
       /\ store' = IF raises \/ doc = <<>> THEN store
                   ELSE SelectSeq(store, LAMBDA d : d._id # doc[1]._id)
       /\ resp' = [resp EXCEPT ![r] =
            IF raises
              THEN HTTPException(500,
                     <<"Erro ao buscar ultima leitura: ">> \o QueryError)
            ELSE IF doc = <<>>
              THEN HTTPException(500,
                     <<"Erro ao buscar ultima leitura: ">>
                       \o StrHTTPException(404, <<"Nenhum dado encontrado">>))
            ELSE Ok([temperatura |-> GetTemperature(doc[1]),
                     umidade |-> GetHumidity(doc[1]),
                     onibus |-> Onibus])]
  /\ pc' = [pc EXCEPT ![r] = "done"]
  /\ UNCHANGED <<store0, nextId, arg, insertedId, relayed, inserts>>

\* lines 68-97
GetLatestReading(r, raises) ==
  /\ r = started + 1
  /\ r \in Req
  /\ started' = r
  /\ kind' = [kind EXCEPT ![r] = "latest"]
  /\ LET doc == find_one(store) IN
       /\ outcome' = [outcome EXCEPT ![r].query =
                        IF raises THEN "raise"
                        ELSE IF doc = <<>> THEN "none" ELSE "doc",
                      ![r].inserts = inserts]
       /\ resp' = [resp EXCEPT ![r] =
            IF raises
              THEN HTTPException(500,
                     <<"Erro ao buscar ultima leitura: ">> \o QueryError)
            ELSE IF doc = <<>>
              \* the HTTPException(404) raised at line 81 is caught by the
              \* except Exception of line 96
              THEN HTTPException(500,
                     <<"Erro ao buscar ultima leitura: ">>
                       \o StrHTTPException(404, <<"Nenhum dado encontrado">>))
            ELSE Ok([temperatura |-> GetTemperature(doc[1]),
                     umidade |-> GetHumidity(doc[1]),
                     onibus |-> Onibus])]
  /\ pc' = [pc EXCEPT ![r] = "done"]
  /\ UNCHANGED <<store0, store, nextId, arg, insertedId, relayed, inserts>>

(* ------------------------------- Next ---------------------------------- *)

Next ==
  \/ \E r \in Req, reading \in Readings, k \in Keys : IngestAuth(r, reading, k)
  \/ \E r \in Req, raises \in BOOLEAN : IngestInsert(r, raises)
  \/ \E r \in Req, out \in {"true", "false", "raise"} : IngestRelay(r, out)
  \/ \E r \in Req, t \in TestTemps, h \in TestHums,
        out \in {"true", "false", "raise"} : TestThingspeak(r, t, h, out)
  \/ \E r \in Req, raises \in BOOLEAN : GetLatestReading(r, raises)

Spec == Init /\ [][Next]_vars

(* ======================= properties of the handlers ==================== *)

IngestReqs == {r \in Req : kind[r] = "ingest"}
LatestReqs == {r \in Req : kind[r] = "latest"}
TestReqs == {r \in Req : kind[r] = "test_thingspeak"}

\* the documents of s whose identifier is id
DocsWithId(s, id) == {i \in 1..Len(s) : s[i]._id = id}

\* the success payload of /ingest for request r
IngestSuccess(r) == [status |-> 200,
                     body |-> [status |-> "ok", id |-> IdStr(insertedId[r])]]

\* the step in which request r is received and served by /latest
LatestStep(r) == kind[r] = "-" /\ kind'[r] = "latest"

\* the /latest payload for the most recently inserted document of s
LatestPayloadOf(s) ==
  LET d == s[Len(s)] IN
    [status |-> 200,
     body |-> [temperatura |->
                 IF "temperature" \in DOMAIN d THEN d.temperature ELSE 0,
               umidade |->
                 IF "humidity" \in DOMAIN d THEN d.humidity ELSE 0,
               onibus |-> <<"Bus 101", "Bus 202">>]]

\* C1: an /ingest request whose credential differs from the configured
\* secret is answered 401 at once; it never awaits insert_one, stores no
\* document and makes no relay call.
C1_BadCredentialRejected ==
  \A r \in IngestReqs :
    arg[r].key # IotApiKey =>
      /\ pc[r] = "done"
      /\ resp[r].status = 401
      /\ outcome[r].insert = "-"
      /\ insertedId[r] = 0
      /\ relayed[r] = <<>>

C1_Witness ==
  \E r \in IngestReqs :
    /\ arg[r].key # IotApiKey
    /\ resp[r].status = 401
    /\ \E q \in IngestReqs : insertedId[q] # 0

\* C2: an /ingest request with the correct credential whose insert
\* succeeded and whose relay call returned (True or False) has stored
\* exactly one document, its own reading under its own identifier, and is
\* answered 200 {status: "ok", id: <that identifier, non-empty>}.
C2_IngestSuccessShape ==
  /\ \A r \in IngestReqs :
       (/\ arg[r].key = IotApiKey
        /\ outcome[r].insert = "ok"
        /\ outcome[r].relay \in {"true", "false"}) =>
         /\ resp[r] = IngestSuccess(r)
         /\ Len(resp[r].body.id) > 0
         /\ Cardinality(DocsWithId(store, insertedId[r])) = 1
         /\ \A i \in DocsWithId(store, insertedId[r]) :
              /\ store[i].temperature = arg[r].temperature
              /\ store[i].humidity = arg[r].humidity
  /\ Len(store) =
       Len(store0) + Cardinality({r \in IngestReqs : outcome[r].insert = "ok"})

C2_Witness ==
  \E r1, r2 \in IngestReqs :
    /\ outcome[r1].relay = "true"
    /\ outcome[r2].relay = "false"
    /\ resp[r1].status = 200
    /\ resp[r2].status = 200

\* C3: a relay failure during /ingest (send_data returning False or
\* raising) is never surfaced: the request is still answered with the
\* success acknowledgment carrying the stored identifier.
C3_RelayFailureNotSurfaced ==
  \A r \in IngestReqs :
    outcome[r].relay \in {"false", "raise"} => resp[r] = IngestSuccess(r)

\* C4: when find_one returns no document, /latest answers 404.
C4_EmptyStoreNotFound ==
  \A r \in LatestReqs : outcome[r].query = "none" => resp[r].status = 404

\* C5: when send_data returns False, /test_thingspeak answers 400; it
\* answers 500 only when send_data raises.
C5_TestRelayFalseIs400 ==
  \A r \in TestReqs :
    /\ outcome[r].relay = "false" => resp[r].status = 400
    /\ resp[r].status = 500 => outcome[r].relay = "raise"

C7_SameAnswer ==
  \A r1, r2 \in LatestReqs :
    outcome[r1].inserts = outcome[r2].inserts => resp[r1] = resp[r2]

C7_SameAnswerQueried ==
  \A r1, r2 \in LatestReqs :
    (/\ outcome[r1].inserts = outcome[r2].inserts
     /\ outcome[r1].query # "raise"
     /\ outcome[r2].query # "raise") => resp[r1] = resp[r2]

C8_IngestStepOrder ==
  /\ \A r \in IngestReqs :
       /\ outcome[r].insert # "-" => arg[r].key = IotApiKey
       /\ Len(relayed[r]) <= 1
       /\ pc[r] \in {"insert", "relay"} => relayed[r] = <<>> /\ resp[r] = NoResp
       /\ relayed[r] # <<>> =>
            /\ outcome[r].insert = "ok"
            /\ DocsWithId(store, insertedId[r]) # {}
            /\ relayed[r][1] = <<arg[r].temperature, arg[r].humidity>>
       /\ resp[r].status = 200 => Len(relayed[r]) = 1
  /\ \A r1, r2 \in IngestReqs :
       (r1 # r2 /\ insertedId[r1] # 0) => insertedId[r1] # insertedId[r2]

C8_Witness ==
  \E r1, r2 \in IngestReqs :
    /\ r1 # r2
    /\ outcome[r1].relay = "false"
    /\ pc[r1] = "done"
    /\ Len(relayed[r1]) = 1
    /\ pc[r2] = "relay"

\* C9: the store is insert-only: every step keeps each stored document in
\* place and unmodified.
C9_StoreInsertOnly ==
  [][/\ Len(store') >= Len(store)
     /\ \A i \in 1..Len(store) : store'[i] = store[i]]_vars

C9_Witness ==
  \E r1, r2 \in IngestReqs :
    /\ outcome[r1].relay = "raise"
    /\ outcome[r2].relay = "false"
    /\ DocsWithId(store, insertedId[r1]) # {}
    /\ DocsWithId(store, insertedId[r2]) # {}

\* C10: when insert_one raises for a request with the correct credential,
\* the request is answered 500 with the failure's description, makes no
\* relay call and adds no document to the store.
C10_InsertFailureSurfaced ==
  /\ \A r \in IngestReqs :
       outcome[r].insert = "raise" =>
         /\ arg[r].key = IotApiKey
         /\ pc[r] = "done"
         /\ resp[r] = [status |-> 500, body |-> [detail |-> InsertError]]
         /\ relayed[r] = <<>>
         /\ insertedId[r] = 0
  /\ Len(store) =
       Len(store0) + Cardinality({r \in IngestReqs : outcome[r].insert # "raise"
                                                    /\ outcome[r].insert # "-"})

C10_Witness ==
  \E r1, r2 \in IngestReqs :
    /\ outcome[r1].insert = "raise"
    /\ resp[r1].status = 500
    /\ outcome[r2].insert = "ok"

====
